---- MODULE Spec2Model ----
(***************************************************************************)
(* hdf_to_tif.py: a command-line pipeline that converts an HDF file to a   *)
(* GeoTIFF by running three external tools in sequence (hegtool, resample, *)
(* gdalwarp), with the text processing that glues them together.           *)
(*                                                                         *)
(* Strings are TLA+ strings; TLC evaluates Len, \o, SubSeq and Tail on     *)
(* them, so the Python string methods are modelled character by character. *)
(***************************************************************************)
EXTENDS Integers, Sequences, FiniteSets, TLC

(***************************************************************************)
(* Python string methods used by the program.                              *)
(***************************************************************************)
UpperAlpha == "ABCDEFGHIJKLMNOPQRSTUVWXYZ"
LowerAlpha == "abcdefghijklmnopqrstuvwxyz"

Char(s, i) == SubSeq(s, i, i)

Drop(s, n) == SubSeq(s, n + 1, Len(s))

StartsWith(s, p) == Len(s) >= Len(p) /\ SubSeq(s, 1, Len(p)) = p

\* one character mapped from the alphabet `from` to the alphabet `to`
MapChar(c, from, to) ==
    IF \E i \in 1..Len(from) : Char(from, i) = c
    THEN Char(to, CHOOSE i \in 1..Len(from) : Char(from, i) = c)
    ELSE c

\* the characters of s mapped one by one (halving keeps the recursion shallow)
RECURSIVE MapStr(_, _, _)
MapStr(s, from, to) ==
    IF s = "" THEN ""
    ELSE IF Len(s) = 1 THEN MapChar(s, from, to)
    ELSE LET h == Len(s) \div 2
         IN  MapStr(SubSeq(s, 1, h), from, to) \o MapStr(Drop(s, h), from, to)

\* str.lower()
Lower(s) == MapStr(s, UpperAlpha, LowerAlpha)

\* str.upper()
Upper(s) == MapStr(s, LowerAlpha, UpperAlpha)

\* str.find(p) + 1: the place of the first occurrence of p in s, 0 when none
Find(s, p) ==
    LET at(i) == SubSeq(s, i, i + Len(p) - 1) = p
        places == {i \in 1..(Len(s) - Len(p) + 1) : at(i)}
    IN  IF places = {} THEN 0
        ELSE CHOOSE i \in places : \A j \in places : i <= j

\* whether s contains the substring p
Contains(s, p) == Find(s, p) # 0

\* str.replace(old, new): every non-overlapping occurrence, left to right
RECURSIVE Replace(_, _, _)
Replace(s, old, new) ==
    LET i == Find(s, old)
    IN  IF i = 0 THEN s
        ELSE SubSeq(s, 1, i - 1) \o new
                 \o Replace(Drop(s, i + Len(old) - 1), old, new)

\* str.split(sep): the pieces between the occurrences of sep, empty ones kept
RECURSIVE Split(_, _)
Split(s, sep) ==
    LET i == Find(s, sep)
    IN  IF i = 0 THEN <<s>>
        ELSE <<SubSeq(s, 1, i - 1)>> \o Split(Drop(s, i + Len(sep) - 1), sep)

\* how many copies of ch s starts with
Leading(s, ch) ==
    CHOOSE n \in 0..Len(s) :
        /\ \A i \in 1..n : Char(s, i) = ch
        /\ n < Len(s) => Char(s, n + 1) # ch

\* how many copies of ch s ends with
Trailing(s, ch) ==
    CHOOSE n \in 0..Len(s) :
        /\ \A i \in 1..n : Char(s, Len(s) + 1 - i) = ch
        /\ n < Len(s) => Char(s, Len(s) - n) # ch

\* str.strip(ch) for a single character ch
Strip(s, ch) ==
    LET l == Drop(s, Leading(s, ch))
    IN  SubSeq(l, 1, Len(l) - Trailing(l, ch))

\* sep.join(parts)
RECURSIVE Join(_, _)
Join(parts, sep) ==
    IF parts = <<>> THEN ""
    ELSE IF Len(parts) = 1 THEN parts[1]
    ELSE parts[1] \o sep \o Join(Tail(parts), sep)

(***************************************************************************)
(* Program constants.                                                      *)
(***************************************************************************)
CVT_CMD == "/home/erik/bin/heg/bin/resample"
CVT_LOG_FILENAME == "resample.log"
STAT_CMD == "/home/erik/bin/heg/bin/hegtool"
STAT_OUT_FILENAME == "HegHdr.hdr"
STAT_LOG_FILENAME == "hegtool.log"
WARP_CMD == "/usr/bin/gdalwarp"

ENV ==
    [n \in {"HEGUSER", "MRTDATADIR", "PGSHOME"} |->
        CASE n = "HEGUSER" -> "BOB"
          [] n = "MRTDATADIR" -> "/home/erik/bin/heg/data"
          [] OTHER -> "/home/erik/bin/heg/TOOLKIT_MTD"]

\* An ordered mapping (OrderedDict, dict) is a sequence of <<key, value>>
\* pairs with distinct keys, in insertion order.
DEF_CONF ==
    << <<"input_filename", "">>,
       <<"object_name", "">>,
       <<"field_name", "">>,
       <<"band_number", "1">>,
       <<"spatial_subset_ul_corner", "">>,
       <<"spatial_subset_lr_corner", "">>,
       <<"resampling_type", "BI">>,
       <<"output_projection_type", "GEO">>,
       <<"ellipsoid_code", "WGS84">>,
       <<"output_projection_parameters",
         "( 0.0 0.0 0.0 0.0 0.0 0.0 0.0 0.0 0.0 0.0 0.0 0.0 0.0 0.0 0.0  )">>,
       <<"output_filename", "">>,
       <<"output_type", "GEO">> >>

BandTable ==
    [a \in {"ndvi", "evi", "vi-quality", "red", "nir", "blue", "mir", "day",
            "pix-rel"} |->
        CASE a = "ndvi" -> "250m 16 days NDVI"
          [] a = "evi" -> "250m 16 days EVI"
          [] a = "vi-quality" -> "250m 16 days VI Quality"
          [] a = "red" -> "250m 16 days red reflectance"
          [] a = "nir" -> "250m 16 days NIR reflectance"
          [] a = "blue" -> "250m 16 days blue reflectance"
          [] a = "mir" -> "250m 16 days MIR reflectance"
          [] a = "day" -> "250m 16 days composite day of the year"
          [] OTHER -> "250m 16 days pixel reliability"]

BANDS == [p \in {"MOD13Q1", "MYD13Q1"} |-> BandTable]

(***************************************************************************)
(* Ordered mappings.                                                       *)
(***************************************************************************)
Keys(conf) == {conf[i][1] : i \in 1..Len(conf)}

KeySeq(conf) == [i \in 1..Len(conf) |-> conf[i][1]]

\* conf[k]
DictGet(conf, k) == conf[CHOOSE i \in 1..Len(conf) : conf[i][1] = k][2]

\* conf[k] = v: an existing key keeps its place, a new one goes last
DictSet(conf, k, v) ==
    IF k \in Keys(conf)
    THEN [i \in 1..Len(conf) |-> IF conf[i][1] = k THEN <<k, v>> ELSE conf[i]]
    ELSE Append(conf, <<k, v>>)

(***************************************************************************)
(* mk_conf_str, and the text mk_conf_file writes.                          *)
(***************************************************************************)
\* the key written as it is, not upper-cased
ConfLine_NoUpper(entry) == entry[1] \o " = " \o entry[2]

ConfLine(entry) == Upper(entry[1]) \o " = " \o entry[2]

mk_conf_str(conf) ==
    LET conf_str == Join([i \in 1..Len(conf) |-> ConfLine(conf[i])], "\n")
    IN  Join(<<"", "NUM_RUNS = 1", "", "BEGIN", conf_str, "END", "">>, "\n")

\* print(mk_conf_str(conf), file=f)
ConfFileText(conf) == mk_conf_str(conf) \o "\n"

(***************************************************************************)
(* The parsing half of stat().                                             *)
(***************************************************************************)
StatText(raw) == Replace(Replace(raw, "\\\n", ""), "\t", " ")

StatLines(raw) ==
    LET lines == Split(StatText(raw), "\n")
        kept  == SelectSeq(lines, LAMBDA l : Strip(l, " ") # "")
    IN  [i \in 1..Len(kept) |-> Strip(kept[i], " ")]

\* l.split("=")[1] raises IndexError on a line without "="
StatIndexError(lines) == \E i \in 1..Len(lines) : Len(Split(lines[i], "=")) < 2

LineKey(l) == Lower(Split(l, "=")[1])

LineValue(l) == Split(l, "=")[2]

\* the dict comprehension: a later line with the same key replaces an earlier one
StatParams(lines) ==
    [k \in {LineKey(lines[i]) : i \in 1..Len(lines)} |->
        LET last == CHOOSE i \in 1..Len(lines) :
                        /\ LineKey(lines[i]) = k
                        /\ \A j \in (i + 1)..Len(lines) : LineKey(lines[j]) # k
        IN  LineValue(lines[last])]

(***************************************************************************)
(* The configuration hdf_to_tif assembles.                                 *)
(***************************************************************************)
RequiredKeys ==
    {"grid_ul_corner_latlon", "grid_lr_corner_latlon", "grid_names",
     "input_shortname"}

\* BANDS.get(product, {}).get(band, band)
FieldName(product, band) ==
    IF product \in DOMAIN BANDS /\ band \in DOMAIN BANDS[product]
    THEN BANDS[product][band]
    ELSE band

BuildConfig(inp_fp, outp, band, params) ==
    LET c1 == DictSet(DEF_CONF, "input_filename", inp_fp)
        c2 == DictSet(c1, "output_filename", outp)
        c3 == DictSet(c2, "spatial_subset_ul_corner",
                      "( " \o params["grid_ul_corner_latlon"] \o " )")
        c4 == DictSet(c3, "spatial_subset_lr_corner",
                      "( " \o params["grid_lr_corner_latlon"] \o " )")
        c5 == DictSet(c4, "object_name",
                      Replace(params["grid_names"], ",", "") \o "|")
    IN  DictSet(c5, "field_name", FieldName(params["input_shortname"], band))

\* s[-n:], which is all of s when s is shorter than n
Suffix(s, n) == IF Len(s) <= n THEN s ELSE SubSeq(s, Len(s) - n + 1, Len(s))

\* s[:-n], which is empty when s is no longer than n
DropSuffix(s, n) == IF Len(s) <= n THEN "" ELSE SubSeq(s, 1, Len(s) - n)

\* the output path main derives when -o is not given
DefaultOutput(inp) ==
    IF Lower(Suffix(inp, 4)) # ".hdf"
    THEN inp \o ".tif"
    ELSE DropSuffix(inp, 4) \o ".tif"

(***************************************************************************)
(* Bounds and input sets of the model.                                     *)
(***************************************************************************)
\* how many names tempfile.mktemp() may draw from
NumTmp == 2
\* how many entries a mapping handed to mk_conf_str directly may have
MaxKeys == 2

Digits == "123456789"

TmpNames == {"/tmp/tmp" \o Char(Digits, i) : i \in 1..NumTmp}

InputPaths == {"s.hdf", "s.HDF", "s.dat", "GetAttrtemp_s.hdf"}
BandArgs == {"ndvi", "evi", "foo"}
OutputPaths == {"o.tif"}
Projections == {"", "epsg:4326"}
ExitStatuses == {0, 1, 2}

\* command lines: each option is found with a value, or not found and left at
\* its default (oarg.Oarg(names, default, description, position))
ArgSets ==
    {a \in [hlp : BOOLEAN, inp_found : BOOLEAN, inp : InputPaths \cup {""},
            band_found : BOOLEAN, band : BandArgs \cup {""},
            out_found : BOOLEAN, out : OutputPaths \cup {""},
            proj : Projections, silence : BOOLEAN] :
        /\ a.inp_found <=> a.inp # ""
        /\ a.band_found <=> a.band # ""
        /\ a.out_found <=> a.out # ""}

\* what the stat tool may leave in HegHdr.hdr: records KEY<sep>VALUE, one per
\* line, a value possibly broken by a backslash-newline continuation
GridEntries(product) ==
    << <<"GRID_NAMES", "G1,">>,
       <<"GRID_UL_CORNER_LATLON", "1 2">>,
       <<"GRID_LR_CORNER_LATLON", "3 4">>,
       <<"INPUT_SHORTNAME", product>> >>

ReportEntries ==
    { << <<"A", "1">>, <<"B", "2">> >>,
      << <<"A", "1">>, <<"a", "2">> >>,
      << <<"A", "1=2">> >> }
    \cup {GridEntries(p) : p \in {"MOD13Q1", "MYD13Q1", "MOD09A1"}}

Separators == {" = ", "=", "\t=\t"}

StatReports ==
    [entries : ReportEntries, sep : Separators, cont : {FALSE}]
    \cup [entries : {<< <<"A", "foo">>, <<"B", "2">> >>}, sep : Separators,
          cont : {TRUE}]
    \cup {[entries |-> << <<"junk", "">> >>, sep |-> "", cont |-> FALSE]}

NoReport == [entries |-> <<>>, sep |-> "", cont |-> FALSE]

\* the text of a report as the stat tool writes it
ReportValue(r, v) ==
    IF r.cont /\ Len(v) >= 2
    THEN SubSeq(v, 1, Len(v) - 1) \o "\\\n" \o Drop(v, Len(v) - 1)
    ELSE v

ReportText(r) ==
    Join([i \in 1..Len(r.entries) |->
             r.entries[i][1] \o r.sep \o ReportValue(r, r.entries[i][2])], "\n")
    \o "\n"

\* mappings handed to mk_conf_str directly
FmtKeys == {"k", "in_f", "Up"}
FmtValues == {"", "v", "1 2", "a\nb", "a\nK = b"}

FmtConfs ==
    {c \in UNION {[1..n -> FmtKeys \X FmtValues] : n \in 0..MaxKeys} :
        \A i, j \in 1..Len(c) : i # j => c[i][1] # c[j][1]}

NoParams == [k \in {} |-> ""]

(***************************************************************************)
(* State.                                                                  *)
(***************************************************************************)
VARIABLES
    pc,        \* where the program is
    args,      \* the parsed command line
    out_fp,    \* main's out_fp
    environ,   \* os.environ, the entries the program sets
    fs,        \* the files that exist: path -> content
    report,    \* what the stat tool wrote, as records (its text is in fs)
    calls,     \* the subprocess.run calls made so far, in order
    exits,     \* the exit statuses of the calls that have returned
    running,   \* the command being waited on, "" when none
    params,    \* hdf_to_tif's params
    conf,      \* hdf_to_tif's conf (mk_conf_str's argument)
    conf_fp,   \* hdf_to_tif's conf_fp
    conf_str,  \* what mk_conf_str returned
    tmp,       \* hdf_to_tif's tmp
    stdout,    \* the lines the program itself printed
    stderr,    \* the uncaught exception the interpreter reported, if any
    exitCode   \* the exit status of the program, -1 while it runs

vars ==
    <<pc, args, out_fp, environ, fs, report, calls, exits, running, params,
      conf, conf_fp, conf_str, tmp, stdout, stderr, exitCode>>

NoArgs ==
    [hlp |-> FALSE, inp_found |-> FALSE, inp |-> "", band_found |-> FALSE,
     band |-> "", out_found |-> FALSE, out |-> "", proj |-> "",
     silence |-> FALSE]

Idle ==
    /\ out_fp = ""
    /\ environ = [n \in {} |-> ""]
    /\ report = NoReport
    /\ calls = <<>>
    /\ exits = <<>>
    /\ running = ""
    /\ params = NoParams
    /\ conf_fp = ""
    /\ conf_str = ""
    /\ tmp = ""
    /\ stdout = <<>>
    /\ stderr = <<>>
    /\ exitCode = -1

\* the program started from the command line; the input file exists
InitMain ==
    /\ pc = "main"
    /\ args \in ArgSets
    /\ fs = [p \in {args.inp} \ {""} |-> "hdf"]
    /\ conf = <<>>
    /\ Idle

\* mk_conf_str called on a mapping of the caller's
InitFormat ==
    /\ pc = "mk_conf_str"
    /\ args = NoArgs
    /\ fs = [p \in {} |-> ""]
    /\ conf \in FmtConfs
    /\ Idle

Init == InitMain \/ InitFormat

(***************************************************************************)
(* Files.                                                                  *)
(***************************************************************************)
\* os.path.isfile(p)
IsFile(f, p) == p \in DOMAIN f

\* the files of f without those of paths
RemoveAll(f, paths) == [p \in DOMAIN f \ paths |-> f[p]]

\* every path of paths written with content
WriteAll(f, paths, content) ==
    [p \in DOMAIN f \cup paths |-> IF p \in paths THEN content ELSE f[p]]

\* relative names without a directory part are files of the working directory
InCwd(p) == ~Contains(p, "/")

\* glob.glob(prefix + "*")
Glob(f, prefix) == {p \in DOMAIN f : InCwd(p) /\ StartsWith(p, prefix)}

\* what the conversion tool may leave beside its output
ConvertSideFiles(outp) ==
    {CVT_LOG_FILENAME, outp \o ".met", "filetable.temp_1", "GetAttrtemp_1"}

\* the files the loop after the conversion goes through
CleanupTargets(f, cfp, outp) ==
    {CVT_LOG_FILENAME, cfp, outp \o ".met"}
        \cup Glob(f, "filetable.temp_") \cup Glob(f, "GetAttrtemp_")

(***************************************************************************)
(* Ways the program ends.                                                  *)
(***************************************************************************)
\* error(msg, code): print("error:", msg); exit(code)
Error(msg, code) ==
    /\ stdout' = Append(stdout, "error: " \o msg)
    /\ exitCode' = code
    /\ pc' = "exit"
    /\ UNCHANGED stderr

\* an exception swallowed: the program would end normally
Raise_Swallowed(exc) ==
    /\ exitCode' = 0
    /\ pc' = "exit"
    /\ UNCHANGED <<stdout, stderr>>

\* an exception nothing catches: the interpreter prints the traceback on
\* standard error and exits with status 1
Raise(exc) ==
    /\ stderr' = <<exc>>
    /\ exitCode' = 1
    /\ pc' = "exit"
    /\ UNCHANGED stdout

\* falling off the end of main
Return ==
    /\ exitCode' = 0
    /\ pc' = "exit"
    /\ UNCHANGED <<stdout, stderr>>

Goto(label) ==
    /\ pc' = label
    /\ UNCHANGED <<stdout, stderr, exitCode>>

\* subprocess.run(cmd, stdout=None if verbose else PIPE, check=True) up to the
\* start of the child
Start(cmd, label) ==
    /\ calls' = Append(calls, [cmd |-> cmd, capture |-> args.silence])
    /\ running' = cmd[1]
    /\ Goto(label)

\* subprocess.run without check=True: the exit status would not be looked at
Returned_Unchecked(status, label) ==
    /\ exits' = Append(exits, status)
    /\ running' = ""
    /\ Goto(label)

\* ... and from the child's exit on: check=True raises on a non-zero status
Returned(status, label) ==
    /\ exits' = Append(exits, status)
    /\ running' = ""
    /\ IF status # 0 THEN Raise("CalledProcessError") ELSE Goto(label)

\* reprojecting whatever proj is
WantsWarp_Always(proj) == TRUE

\* if proj:
WantsWarp(proj) == proj # ""

(***************************************************************************)
(* main, up to the call of hdf_to_tif and the update of the environment.   *)
(***************************************************************************)
\* main checking the input path only
UsageError_InputOnly(a) ==
    IF ~a.inp_found THEN "must provide input filepath (use --help)" ELSE ""

\* the message of the first check of main that fails, "" when all pass
UsageError(a) ==
    IF ~a.inp_found THEN "must provide input filepath (use --help)"
    ELSE IF ~a.band_found THEN "must provide band (use --help)"
    ELSE ""

Main ==
    /\ pc = "main"
    /\ IF args.hlp
       THEN /\ stdout' = Append(stdout, "options:")
            /\ exitCode' = 0
            /\ pc' = "exit"
            /\ UNCHANGED <<stderr, out_fp, environ>>
       ELSE IF UsageError(args) # ""
       THEN /\ Error(UsageError(args), 1)
            /\ UNCHANGED <<out_fp, environ>>
       ELSE /\ out_fp' = IF ~args.out_found THEN DefaultOutput(args.inp)
                         ELSE args.out
            /\ environ' = ENV
            /\ Goto("run_stat")
    /\ UNCHANGED <<args, fs, report, calls, exits, running, params, conf,
                   conf_fp, conf_str, tmp>>

(***************************************************************************)
(* stat                                                                    *)
(***************************************************************************)
RunStat ==
    /\ pc = "run_stat"
    /\ Start(<<STAT_CMD, "-h", args.inp>>, "wait_stat")
    /\ UNCHANGED <<args, out_fp, environ, fs, report, exits, params, conf,
                   conf_fp, conf_str, tmp>>

\* the stat tool exits; it may have written its log and its header file
StatReturns ==
    /\ pc = "wait_stat"
    /\ \E status \in ExitStatuses, log \in BOOLEAN,
          r \in StatReports \cup {NoReport} :
        /\ report' = r
        /\ fs' = LET f1 == IF log THEN WriteAll(fs, {STAT_LOG_FILENAME}, "log")
                           ELSE fs
                 IN  IF r # NoReport
                     THEN WriteAll(f1, {STAT_OUT_FILENAME}, ReportText(r))
                     ELSE f1
        /\ Returned(status, "stat_rmlog")
    /\ UNCHANGED <<args, out_fp, environ, calls, params, conf, conf_fp,
                   conf_str, tmp>>

StatRemoveLog ==
    /\ pc = "stat_rmlog"
    /\ fs' = IF IsFile(fs, STAT_LOG_FILENAME)
             THEN RemoveAll(fs, {STAT_LOG_FILENAME})
             ELSE fs
    /\ Goto("stat_parse")
    /\ UNCHANGED <<args, out_fp, environ, report, calls, exits, running,
                   params, conf, conf_fp, conf_str, tmp>>

\* the header file left behind
RemoveStatOut_Keep(f) == f

\* os.remove(out_fp) once the header file has been read
RemoveStatOut(f) == RemoveAll(f, {STAT_OUT_FILENAME})

StatParse ==
    /\ pc = "stat_parse"
    /\ IF ~IsFile(fs, STAT_OUT_FILENAME)
       THEN /\ Raise("FileNotFoundError")
            /\ UNCHANGED <<fs, params>>
       ELSE LET lines == StatLines(fs[STAT_OUT_FILENAME])
            IN  /\ fs' = RemoveStatOut(fs)
                /\ IF StatIndexError(lines)
                   THEN /\ Raise("IndexError")
                        /\ UNCHANGED params
                   ELSE /\ params' = StatParams(lines)
                        /\ Goto("conf")
    /\ UNCHANGED <<args, out_fp, environ, report, calls, exits, running,
                   conf, conf_fp, conf_str, tmp>>

(***************************************************************************)
(* hdf_to_tif after stat                                                   *)
(***************************************************************************)
BuildConf ==
    /\ pc = "conf"
    /\ IF ~(RequiredKeys \subseteq DOMAIN params)
       THEN /\ Raise("KeyError")
            /\ UNCHANGED <<fs, conf, conf_fp, conf_str>>
       ELSE \E name \in TmpNames \ DOMAIN fs :
            /\ conf' = BuildConfig(args.inp, out_fp, args.band, params)
            /\ conf_fp' = name
            /\ conf_str' = mk_conf_str(conf')
            /\ fs' = WriteAll(fs, {name}, ConfFileText(conf'))
            /\ Goto("run_convert")
    /\ UNCHANGED <<args, out_fp, environ, report, calls, exits, running,
                   params, tmp>>

RunConvert ==
    /\ pc = "run_convert"
    /\ Start(<<CVT_CMD, "-p", conf_fp>>, "wait_convert")
    /\ UNCHANGED <<args, out_fp, environ, fs, report, exits, params, conf,
                   conf_fp, conf_str, tmp>>

\* the conversion tool exits: with status 0 it has written the output file;
\* either way it may leave its log, the .met sidecar and transient files
ConvertReturns ==
    /\ pc = "wait_convert"
    /\ \E status \in ExitStatuses, side \in SUBSET ConvertSideFiles(out_fp) :
        /\ fs' = LET f1 == WriteAll(fs, side, "scratch")
                 IN  IF status = 0 THEN WriteAll(f1, {out_fp}, "converted")
                     ELSE f1
        /\ Returned(status, "cleanup")
    /\ UNCHANGED <<args, out_fp, environ, report, calls, params, conf,
                   conf_fp, conf_str, tmp>>

Cleanup ==
    /\ pc = "cleanup"
    /\ fs' = RemoveAll(fs, {fp \in CleanupTargets(fs, conf_fp, out_fp) :
                               IsFile(fs, fp)})
    /\ IF WantsWarp(args.proj) THEN Goto("run_warp") ELSE Return
    /\ UNCHANGED <<args, out_fp, environ, report, calls, exits, running,
                   params, conf, conf_fp, conf_str, tmp>>

RunWarp ==
    /\ pc = "run_warp"
    /\ \E name \in TmpNames \ DOMAIN fs :
        /\ tmp' = name
        /\ Start(<<WARP_CMD, out_fp, name, "-t_srs", Upper(args.proj)>>,
                 "wait_warp")
    /\ UNCHANGED <<args, out_fp, environ, fs, report, exits, params, conf,
                   conf_fp, conf_str>>

\* the reprojection tool exits: with status 0 it has read its input and
\* written the whole of its output; failing, it may leave a part of it
WarpReturns ==
    /\ pc = "wait_warp"
    /\ \E status \in ExitStatuses, wrote \in BOOLEAN :
        /\ status = 0 => IsFile(fs, out_fp) /\ wrote
        /\ fs' = IF ~wrote THEN fs
                 ELSE WriteAll(fs, {tmp},
                               IF status = 0 THEN "reprojected" ELSE "partial")
        /\ Returned(status, "move")
    /\ UNCHANGED <<args, out_fp, environ, report, calls, params, conf,
                   conf_fp, conf_str, tmp>>

(***************************************************************************)
(* shutil.move(tmp, out_fp): os.rename when it succeeds, and when it       *)
(* raises OSError (the two paths are on different file systems) a copy     *)
(* into the destination followed by os.unlink of the source.               *)
(***************************************************************************)
MoveRename ==
    /\ pc = "move"
    /\ fs' = RemoveAll(WriteAll(fs, {out_fp}, fs[tmp]), {tmp})
    /\ Return
    /\ UNCHANGED <<args, out_fp, environ, report, calls, exits, running,
                   params, conf, conf_fp, conf_str, tmp>>

\* the copy opens the destination for writing, which truncates it
MoveCopyOpen ==
    /\ pc = "move"
    /\ fs' = WriteAll(fs, {out_fp}, "partial")
    /\ Goto("move_copy")
    /\ UNCHANGED <<args, out_fp, environ, report, calls, exits, running,
                   params, conf, conf_fp, conf_str, tmp>>

MoveCopyWrite ==
    /\ pc = "move_copy"
    /\ fs' = WriteAll(fs, {out_fp}, fs[tmp])
    /\ Goto("move_unlink")
    /\ UNCHANGED <<args, out_fp, environ, report, calls, exits, running,
                   params, conf, conf_fp, conf_str, tmp>>

MoveUnlink ==
    /\ pc = "move_unlink"
    /\ fs' = RemoveAll(fs, {tmp})
    /\ Return
    /\ UNCHANGED <<args, out_fp, environ, report, calls, exits, running,
                   params, conf, conf_fp, conf_str, tmp>>

(***************************************************************************)
(* mk_conf_str called on its own                                           *)
(***************************************************************************)
CallMkConfStr ==
    /\ pc = "mk_conf_str"
    /\ conf_str' = mk_conf_str(conf)
    /\ pc' = "returned"
    /\ UNCHANGED <<args, out_fp, environ, fs, report, calls, exits, running,
                   params, conf, conf_fp, tmp, stdout, stderr, exitCode>>

Next ==
    \/ Main
    \/ RunStat
    \/ StatReturns
    \/ StatRemoveLog
    \/ StatParse
    \/ BuildConf
    \/ RunConvert
    \/ ConvertReturns
    \/ Cleanup
    \/ RunWarp
    \/ WarpReturns
    \/ MoveRename
    \/ MoveCopyOpen
    \/ MoveCopyWrite
    \/ MoveUnlink
    \/ CallMkConfStr

Spec == Init /\ [][Next]_vars

(***************************************************************************)
(* Properties.                                                             *)
(***************************************************************************)
ToolSeq == [i \in 1..Len(calls) |-> calls[i].cmd[1]]

IsPrefix(a, b) == Len(a) <= Len(b) /\ a = SubSeq(b, 1, Len(a))

HasErrorLine == \E i \in 1..Len(stdout) : StartsWith(stdout[i], "error: ")

ToolFailed == \E i \in 1..Len(exits) : exits[i] # 0

\* a run of main (and not a call of mk_conf_str on its own)
MainRun == pc \notin {"mk_conf_str", "returned"}

ArgMissing == MainRun /\ (~args.inp_found \/ ~args.band_found)

\* C1: the tools are started in the order stat, conversion, reprojection, each
\* at most once and one at a time; the conversion tool only after the stat
\* tool has exited with status 0 and the config file is written, the
\* reprojection tool only after the conversion tool has exited with status 0
\* and the cleanup has run, and only for a non-empty projection.
C1_ToolOrder ==
    /\ IsPrefix(ToolSeq, <<STAT_CMD, CVT_CMD, WARP_CMD>>)
    /\ Len(exits) <= Len(calls) /\ Len(calls) <= Len(exits) + 1
    /\ running # "" <=> Len(calls) = Len(exits) + 1
    /\ running # "" => running = ToolSeq[Len(calls)]
    /\ Len(calls) >= 2 =>
          /\ Len(exits) >= 1 /\ exits[1] = 0
          /\ calls[2].cmd = <<CVT_CMD, "-p", conf_fp>>
          /\ pc = "wait_convert" =>
                IsFile(fs, conf_fp) /\ fs[conf_fp] = conf_str \o "\n"
    /\ Len(calls) >= 3 =>
          /\ Len(exits) >= 2 /\ exits[2] = 0
          /\ args.proj # ""
          /\ pc = "wait_warp" =>
                /\ ~IsFile(fs, CVT_LOG_FILENAME)
                /\ ~IsFile(fs, conf_fp)
                /\ ~IsFile(fs, out_fp \o ".met")
                /\ Glob(fs, "filetable.temp_") = {}
                /\ Glob(fs, "GetAttrtemp_") = {}

\* C1 witness: a run in which all three tools ran and the program ended
C1_Witness == pc = "exit" /\ Len(calls) = 3 /\ Len(exits) = 3 /\ exitCode = 0

\* C2: once a tool has exited with a non-zero status the run is over and has
\* failed: the failed call is the last one made, nothing is running, and no
\* file is created or removed and no call is made from then on.
C2_ToolFailureAborts ==
    /\ [](ToolFailed =>
            /\ pc = "exit" /\ exitCode # 0 /\ exitCode # -1
            /\ running = ""
            /\ Len(calls) = Len(exits)
            /\ \A i \in 1..Len(exits) : exits[i] # 0 => i = Len(exits))
    /\ [][ToolFailed => UNCHANGED <<fs, calls, exits, pc, exitCode>>]_vars

\* C2 witness: the reprojection tool, the last of the three, has failed
C2_Witness == Len(exits) = 3 /\ exits[3] # 0 /\ pc = "exit"

\* C3 as stated: a run with the input path or the band alias not supplied
\* starts no tool and ends with an error message and a non-zero status.
C3_Original ==
    ArgMissing =>
        /\ calls = <<>>
        /\ pc = "exit" => exitCode # 0 /\ HasErrorLine

\* C3 amended: a run with the input path or the band alias not supplied starts
\* no tool; without the help flag it ends with an error line and a non-zero
\* status, with the help flag it prints the options and ends with status 0.
C3_UsageError ==
    ArgMissing =>
        /\ calls = <<>>
        /\ pc \in {"main", "exit"}
        /\ pc = "exit" =>
              IF args.hlp
              THEN exitCode = 0 /\ stdout = <<"options:">>
              ELSE /\ exitCode # 0 /\ exitCode # -1
                   /\ Len(stdout) = 1 /\ HasErrorLine

\* C3 witness: a run without the band alias (and without help) has ended
C3_Witness ==
    /\ args.inp_found /\ ~args.band_found /\ ~args.hlp
    /\ pc = "exit" /\ exitCode = 1

PipelineCompleted ==
    /\ pc = "exit" /\ ~args.hlp /\ ~ArgMissing /\ stderr = <<>>
    /\ Len(exits) = (IF args.proj # "" THEN 3 ELSE 2)
    /\ ~ToolFailed

ValidationFailed == pc = "exit" /\ ~args.hlp /\ ArgMissing

\* C4 as stated: exit code 0 when the pipeline completes; exit code 1 with an
\* "error: <message>" line on standard output when argument validation fails
\* and when a tool exits with a non-zero status.
C4_Original ==
    /\ PipelineCompleted => exitCode = 0
    /\ ValidationFailed => exitCode = 1 /\ HasErrorLine
    /\ ToolFailed => exitCode = 1 /\ HasErrorLine

\* C4 amended: exit code 0 when the pipeline completes; exit code 1 with an
\* "error: <message>" line on standard output when argument validation fails;
\* exit code 1 through an uncaught CalledProcessError, reported on standard
\* error and with no "error:" line on standard output, when a tool exits with
\* a non-zero status.
C4_ExitCodes ==
    /\ PipelineCompleted => exitCode = 0
    /\ ValidationFailed => exitCode = 1 /\ HasErrorLine /\ stderr = <<>>
    /\ ToolFailed =>
          /\ exitCode = 1
          /\ stderr = <<"CalledProcessError">>
          /\ ~HasErrorLine

\* C4 witness: the conversion tool has failed and the program has ended
C4_Witness == Len(exits) = 2 /\ exits[2] # 0 /\ pc = "exit"

\* C5: once the reprojection tool has exited with status 0, the output path
\* holds the whole conversion result or the whole reprojected raster in every
\* state, the temporary file is not the output path, and when the program has
\* ended the output is the reprojected raster and the temporary file is gone.
C5_AtomicReplace ==
    (MainRun /\ Len(exits) = 3 /\ exits[3] = 0) =>
        /\ tmp # out_fp
        /\ IsFile(fs, out_fp)
        /\ fs[out_fp] \in {"converted", "reprojected"}
        /\ pc = "exit" => fs[out_fp] = "reprojected" /\ ~IsFile(fs, tmp)

\* the stat tool's report has one KEY<whitespace>=<whitespace>VALUE record a line
Documented(r) == r # NoReport /\ Contains(r.sep, "=")

\* the mapping the report stands for: lower-cased key -> value of its last record
ExpectedParams(r) ==
    [k \in {Lower(r.entries[i][1]) : i \in 1..Len(r.entries)} |->
        LET last == CHOOSE i \in 1..Len(r.entries) :
                        /\ Lower(r.entries[i][1]) = k
                        /\ \A j \in (i + 1)..Len(r.entries) :
                               Lower(r.entries[j][1]) # k
        IN  r.entries[last][2]]

StatSucceeded == MainRun /\ Len(exits) >= 1 /\ exits[1] = 0

AfterStatParse ==
    StatSucceeded /\ pc \notin {"wait_stat", "stat_rmlog", "stat_parse"}

\* C6: for a report of KEY = VALUE records, stat returns the mapping from each
\* key, lower-cased and trimmed, to the trimmed text after the first "=".
C6_ParsedMapping ==
    (AfterStatParse /\ Documented(report)) =>
        /\ stderr # <<"IndexError">>
        /\ params = ExpectedParams(report)

\* C7: for a report of KEY = VALUE records that has the grid corner fields, the
\* grid-name field and the product shortname, the configuration is assembled
\* and its field_name is the band table's entry for (product, band alias) when
\* there is one and the band alias itself when there is none.
C7_FieldName ==
    (AfterStatParse /\ Documented(report)
        /\ RequiredKeys \subseteq DOMAIN ExpectedParams(report)) =>
        /\ stderr # <<"KeyError">>
        /\ conf # <<>> =>
              DictGet(conf, "field_name") =
                  LET product == ExpectedParams(report)["input_shortname"]
                  IN  IF product \in {"MOD13Q1", "MYD13Q1"}
                         /\ args.band \in DOMAIN BandTable
                      THEN BandTable[args.band]
                      ELSE args.band

NoNewline(c) ==
    \A i \in 1..Len(c) : ~Contains(c[i][1], "\n") /\ ~Contains(c[i][2], "\n")

IsKeyValueLine(l) == Find(l, " = ") > 1

\* the lines of text between its first BEGIN line and its last END line
Between(text) ==
    LET L == Split(text, "\n")
        b == CHOOSE i \in 1..Len(L) :
                 L[i] = "BEGIN" /\ \A j \in 1..(i - 1) : L[j] # "BEGIN"
        e == CHOOSE i \in 1..Len(L) :
                 L[i] = "END" /\ \A j \in (i + 1)..Len(L) : L[j] # "END"
    IN  SubSeq(L, b + 1, e - 1)

\* NUM_RUNS = 1, then BEGIN, then as many KEY = VALUE lines as c has keys, each
\* starting with the upper-cased key and in c's order, then END
CountedFormat(c, text) ==
    LET L  == Split(text, "\n")
        kv == SelectSeq(Between(text), IsKeyValueLine)
    IN  /\ \E i, j, k \in 1..Len(L) :
              i < j /\ j < k /\ L[i] = "NUM_RUNS = 1" /\ L[j] = "BEGIN"
                 /\ L[k] = "END"
        /\ Len(kv) = Len(c)
        /\ \A i \in 1..Len(c) : StartsWith(kv[i], Upper(c[i][1]) \o " = ")

\* the same, line for line: the block is exactly the header lines, one line
\* KEY = VALUE for each key of c, and END
ExactFormat(c, text) ==
    LET L == Split(text, "\n")
        n == Len(L)
    IN  /\ n >= 7
        /\ SubSeq(L, 1, 4) = <<"", "NUM_RUNS = 1", "", "BEGIN">>
        /\ SubSeq(L, n - 1, n) = <<"END", "">>
        /\ SelectSeq(SubSeq(L, 5, n - 2), IsKeyValueLine)
               = [i \in 1..Len(c) |-> Upper(c[i][1]) \o " = " \o c[i][2]]
        /\ n - 6 = (IF Len(c) = 0 THEN 1 ELSE Len(c))

ConfFileWritten == MainRun /\ pc \in {"run_convert", "wait_convert"}

\* C8 as stated: for any mapping, mk_conf_str's block has exactly one
\* KEY = VALUE line per key between BEGIN and END, upper-cased and in order;
\* and the config file of a run lists the default template's keys in order.
C8_Original ==
    /\ pc \in {"returned", "run_convert"} => CountedFormat(conf, conf_str)
    /\ ConfFileWritten =>
          /\ IsFile(fs, conf_fp) /\ fs[conf_fp] = conf_str \o "\n"
          /\ KeySeq(conf) = KeySeq(DEF_CONF)

\* C8 amended: for any mapping whose keys and values contain no newline,
\* mk_conf_str's block is NUM_RUNS = 1, BEGIN, exactly one line KEY = VALUE per
\* key, upper-cased and in the mapping's order, and END; and the config file of
\* a run is that block for the default template's keys, in the template's order.
C8_ConfFormat ==
    /\ (pc \in {"returned", "run_convert"} /\ NoNewline(conf)) =>
          ExactFormat(conf, conf_str)
    /\ ConfFileWritten =>
          /\ IsFile(fs, conf_fp) /\ fs[conf_fp] = conf_str \o "\n"
          /\ KeySeq(conf) = KeySeq(DEF_CONF)

\* C8 witness: mk_conf_str has returned the block of a two-key mapping
C8_Witness ==
    pc = "returned" /\ Len(conf) = 2 /\ NoNewline(conf) /\ conf[1][1] = "in_f"

\* C9 as stated: after the stat tool has exited with status 0 and the stat step
\* has run, neither of the tool's two files exists, and the absence of either
\* has not failed the run.
C9_Original ==
    AfterStatParse =>
        /\ ~IsFile(fs, STAT_LOG_FILENAME)
        /\ ~IsFile(fs, STAT_OUT_FILENAME)
        /\ stderr # <<"FileNotFoundError">>

\* C9 amended: after the stat tool has exited with status 0, the stat step
\* deletes the log file when it is present and skips it silently when it is
\* absent; the output file is required: when present it is read and deleted,
\* when absent the run fails with FileNotFoundError.
C9_StatCleanup ==
    /\ (StatSucceeded /\ pc \notin {"wait_stat", "stat_rmlog"}) =>
          ~IsFile(fs, STAT_LOG_FILENAME)
    /\ AfterStatParse =>
          /\ ~IsFile(fs, STAT_OUT_FILENAME)
          /\ report = NoReport <=> stderr = <<"FileNotFoundError">>
          /\ report = NoReport => pc = "exit" /\ exitCode = 1 /\ calls = <<calls[1]>>

\* C9 witness: the header file has been read and deleted, and the run goes on
C9_Witness == AfterStatParse /\ report # NoReport /\ pc = "conf"

\* C10: right after the cleanup that follows a successful conversion, none of
\* the intermediate files exists and the output file still does.
C10_CleanupKeepsOutput ==
    (MainRun /\ Len(exits) = 2 /\ exits[2] = 0 /\ pc \in {"run_warp", "exit"}) =>
        /\ ~IsFile(fs, CVT_LOG_FILENAME)
        /\ ~IsFile(fs, conf_fp)
        /\ ~IsFile(fs, out_fp \o ".met")
        /\ Glob(fs, "filetable.temp_") = {}
        /\ Glob(fs, "GetAttrtemp_") = {}
        /\ IsFile(fs, out_fp)

====
